---- MODULE Spec2Model ----
(***************************************************************************)
(* Model of the byte-level parts of src/main.rs:                           *)
(*   - the instruction_data! macro (the encoder of instruction buffers),   *)
(*   - process_instruction(data: &[u8]) (the decoder / dispatcher),        *)
(*   - the account-record parsing of slice_examples.                       *)
(*                                                                         *)
(* Conventions.  A byte buffer is a sequence of numbers 0..255; Rust index *)
(* i is TLA+ index i+1 (see At).  An indexing or slicing expression whose  *)
(* index is out of bounds panics in Rust; the model records that as        *)
(* panic |-> TRUE in the result of the operation.  println! output is the  *)
(* sequence `out` of report records, one per printed line.  TLC integers   *)
(* are 32-bit signed, so a u32 is held as two 16-bit limbs [hi, lo] whose  *)
(* value is hi * 65536 + lo.                                               *)
(***************************************************************************)
EXTENDS Integers, Sequences, FiniteSets, TLC

VARIABLES
    pc,            \* which call is in progress, and whether it has returned
    request,       \* what the encoder was asked for ("raw": bytes from outside)
    data,          \* the buffer handed to process_instruction
    result,        \* what process_instruction did with data
    account_data,  \* the buffer of the account-record parse
    parsed,        \* what the account-record parse did with account_data
    txs,           \* the collection handed to validate_transactions
    validation,    \* what validate_transactions printed for txs
    account,       \* an account entity (UserAccount or ProgramAccount)
    display_out,   \* the lines display_info printed for account
    rent_exempt,   \* what is_rent_exempt returned for account
    token_error,   \* the TokenError handed to ComplexError::from
    complex_error, \* the ComplexError it was converted to
    call,          \* the arguments (from, to, amount) of a transfer call
    outcome,       \* what each of the transfer functions returned for call
    complex_result, \* what run_complex_operation returned
    sol_call,      \* the arguments of the Solana-style process_instruction
    sol_result,    \* what the Solana-style process_instruction returned and printed
    calls,         \* the call (operation and input) each thread of a host makes
    cpc,           \* the statement each thread's call is at
    frame,         \* the local variables of the calls, one stack frame per call
    stdout,        \* the lines printed so far by all threads, in the order printed
    iterations,    \* per thread, the loop bodies its call has executed
    main_state,    \* whether main has started, is running, panicked or is done
    main_at        \* the number of sections main has completed

codecVars == <<request, data, result, account_data, parsed>>
txVars == <<txs, validation>>
entityVars == <<account, display_out, rent_exempt>>
errorVars == <<token_error, complex_error, call, outcome>>

programVars == <<complex_result, sol_call, sol_result>>
hostVars == <<calls, cpc, frame, stdout, iterations>>

vars == <<pc, codecVars, txVars, entityVars, errorVars, programVars, hostVars,
         main_state, main_at>>

\* ------------------------------------------------------------------ bounds

\* number of bytes that may follow the 12 bytes of a Transfer buffer
MaxTail == 1

\* number of bytes that may follow the length byte of an account record
MaxBody == 3

\* number of transactions in a collection handed to validate_transactions
MaxTxs == 2

\* number of times display_info is called on one account
MaxDisplays == 2

\* ------------------------------------------------------------ byte helpers

Byte == 0..255

\* data[i] of Rust, for an index that is in bounds
At(d, i) == d[i + 1]

\* whether data[i] is inside the buffer (otherwise the index panics)
InBounds(d, i) == i >= 0 /\ i < Len(d)

\* &data[from..to] of Rust, for a range that is in bounds
Slice(d, from, to) == SubSeq(d, from + 1, to)

\* whether &data[from..to] is inside the buffer (otherwise the slice panics)
SliceInBounds(d, from, to) == from <= to /\ to <= Len(d)

Prefixes(s) == { SubSeq(s, 1, n) : n \in 0..Len(s) }

RECURSIVE SeqsUpTo(_, _)
SeqsUpTo(S, n) ==
    IF n = 0 THEN { <<>> }
    ELSE LET shorter == SeqsUpTo(S, n - 1)
         IN  shorter \cup { Append(s, x) : s \in { t \in shorter : Len(t) = n - 1 }, x \in S }

\* ------------------------------------------------- program constants (bytes)

\* `if data.len() < 4`: the length every instruction buffer must have
MIN_INSTRUCTION_LEN == 4

\* `if data.len() >= 12`: the length from which a Transfer carries its fields
TRANSFER_PAYLOAD_LEN == 12

\* `account_data[8]`: offset of the name-length byte of an account record
NAME_LENGTH_OFFSET == 8

\* `&account_data[9..9 + name_length]`: offset of the first name byte
NAME_OFFSET == 9

\* `self.lamports() >= 890_880`: the minimum balance for rent exemption
RENT_EXEMPT_MIN_LAMPORTS == 890880

\* `1_000_000`: the balance every ProgramAccount reports
PROGRAM_ACCOUNT_LAMPORTS == 1000000

\* ------------------------------------------------------ instruction encoder

\* ($amount as u64).to_le_bytes(): the 8 little-endian bytes of the amount.
\* A negative i32 amount is sign-extended by the cast, so its upper four
\* bytes are 255.  (\div rounds down and % is non-negative, as an
\* arithmetic shift and a mask are.)
to_le_bytes_u64(amount) ==
    << amount % 256,
       (amount \div 256) % 256,
       (amount \div 65536) % 256,
       (amount \div 16777216) % 256 >>
    \o (IF amount < 0 THEN <<255, 255, 255, 255>> ELSE <<0, 0, 0, 0>>)

\* instruction_data!(transfer, $amount): vec![0] then the amount
instruction_data_transfer(amount) == <<0>> \o to_le_bytes_u64(amount)

\* instruction_data!(mint, $amount, $decimals): vec![1], the amount, decimals
instruction_data_mint(amount, decimals) ==
    Append(<<1>> \o to_le_bytes_u64(amount), decimals)

\* ------------------------------------------------------ instruction decoder

\* a u32 as two 16-bit limbs
U32(hi, lo) == [hi |-> hi, lo |-> lo]

\* the limbs of a number 0 <= n < 2^31
U32Of(n) == U32(n \div 65536, n % 65536)

from_be_bytes_u32(b0, b1, b2, b3) == U32(b0 * 256 + b1, b2 * 256 + b3)

\* u32::from_le_bytes([b0, b1, b2, b3]): b0 is the least significant byte
from_le_bytes_u32(b0, b1, b2, b3) == U32(b3 * 256 + b2, b1 * 256 + b0)

\* the lines process_instruction can print
TooShortReport == [kind |-> "TooShort"]
InitializeReport == [kind |-> "Initialize"]
CreateAccountReport == [kind |-> "CreateAccount"]
TransferReport == [kind |-> "Transfer"]
FieldsReport(amount, recipient_id) ==
    [kind |-> "Fields", amount |-> amount, recipient_id |-> recipient_id]
UnknownReport(byte) == [kind |-> "Unknown", byte |-> byte]

Returned(out) == [panic |-> FALSE, out |-> out]
Panicked(out) == [panic |-> TRUE, out |-> out]

TooShortBelowOne(d) == Len(d) < 1

\* `if data.len() < 4 { println!("Invalid instruction: too short"); return; }`
TooShort(d) == Len(d) < MIN_INSTRUCTION_LEN

instruction_type_at_one(d) == At(d, 1)

\* `let instruction_type = data[0];`
instruction_type(d) == At(d, 0)

HasTransferPayloadFromEight(d) == Len(d) >= 8

\* `if data.len() >= 12`
HasTransferPayload(d) == Len(d) >= TRANSFER_PAYLOAD_LEN

\* the body of the arm `2 => { ... }`
TransferArm(d) ==
    IF HasTransferPayload(d)
    THEN IF \A i \in 4..11 : InBounds(d, i)
         THEN Returned(<< TransferReport,
                          FieldsReport(
                              from_le_bytes_u32(At(d, 4), At(d, 5), At(d, 6), At(d, 7)),
                              from_le_bytes_u32(At(d, 8), At(d, 9), At(d, 10), At(d, 11))) >>)
         ELSE Panicked(<< TransferReport >>)
    ELSE Returned(<< TransferReport >>)

MatchWithMintAndBurnArms(d) ==
    LET t == instruction_type(d)
    IN  CASE t = 0 -> Returned(<< InitializeReport >>)
          [] t = 1 -> Returned(<< CreateAccountReport >>)
          [] t = 2 -> TransferArm(d)
          [] t = 3 -> Returned(<< [kind |-> "Mint"] >>)
          [] t = 4 -> Returned(<< [kind |-> "Burn"] >>)
          [] OTHER -> Returned(<< UnknownReport(t) >>)

\* `match instruction_type { 0 => ..., 1 => ..., 2 => {...}, _ => ... }`
Match(d) ==
    LET t == instruction_type(d)
    IN  CASE t = 0 -> Returned(<< InitializeReport >>)
          [] t = 1 -> Returned(<< CreateAccountReport >>)
          [] t = 2 -> TransferArm(d)
          [] OTHER -> Returned(<< UnknownReport(t) >>)

process_instruction_opcode_first(d) ==
    IF ~InBounds(d, 0) THEN Returned(<< TooShortReport >>)
    ELSE IF instruction_type(d) \notin {0, 1, 2}
         THEN Returned(<< UnknownReport(instruction_type(d)) >>)
    ELSE IF TooShort(d) THEN Returned(<< TooShortReport >>)
    ELSE Match(d)

\* fn process_instruction(data: &[u8])
process_instruction(d) ==
    IF TooShort(d) THEN Returned(<< TooShortReport >>)
    ELSE IF ~InBounds(d, 0) THEN Panicked(<< >>)
    ELSE Match(d)

\* ---------------------------------------------------- account-record parse

RECURSIVE ValidUtf8From(_, _)
\* whether the bytes of s from position i on (1-based) are well-formed UTF-8,
\* as std::str::from_utf8 decides it
ValidUtf8From(s, i) ==
    IF i > Len(s) THEN TRUE
    ELSE LET b == s[i]
             Cont(k) == k <= Len(s) /\ s[k] \in 128..191
         IN  IF b < 128 THEN ValidUtf8From(s, i + 1)
             ELSE IF b \in 194..223
                  THEN Cont(i + 1) /\ ValidUtf8From(s, i + 2)
             ELSE IF b \in 224..239
                  THEN /\ Cont(i + 1)
                       /\ (b = 224 => s[i + 1] >= 160)
                       /\ (b = 237 => s[i + 1] <= 159)
                       /\ Cont(i + 2)
                       /\ ValidUtf8From(s, i + 3)
             ELSE IF b \in 240..244
                  THEN /\ Cont(i + 1)
                       /\ (b = 240 => s[i + 1] >= 144)
                       /\ (b = 244 => s[i + 1] <= 143)
                       /\ Cont(i + 2)
                       /\ Cont(i + 3)
                       /\ ValidUtf8From(s, i + 4)
             ELSE FALSE

\* std::str::from_utf8(name_slice).is_ok()
IsUtf8(s) == ValidUtf8From(s, 1)

\* the text "Invalid UTF-8", as its bytes
InvalidUtf8Text == <<73, 110, 118, 97, 108, 105, 100, 32, 85, 84, 70, 45, 56>>

\* std::str::from_utf8(name_slice).unwrap_or("Invalid UTF-8"); a text is
\* held as its UTF-8 bytes
from_utf8_or_default(name_slice) ==
    IF IsUtf8(name_slice) THEN name_slice ELSE InvalidUtf8Text

name_slice_from_length_byte(d, name_length) ==
    Slice(d, NAME_LENGTH_OFFSET, NAME_LENGTH_OFFSET + name_length)

\* `&account_data[9..9 + name_length]`, for a range that is in bounds
name_slice_of(d, name_length) ==
    Slice(d, NAME_OFFSET, NAME_OFFSET + name_length)

ParsePanicked == [panic |-> TRUE]

\* the account-record statements of slice_examples, on any account_data
parse_account(d) ==
    IF ~InBounds(d, 0) THEN ParsePanicked
    ELSE IF ~InBounds(d, NAME_LENGTH_OFFSET) THEN ParsePanicked
    ELSE LET name_length == At(d, NAME_LENGTH_OFFSET)
         IN  IF ~SliceInBounds(d, NAME_OFFSET, NAME_OFFSET + name_length)
             THEN ParsePanicked
             ELSE [ panic |-> FALSE,
                    instruction_type |-> At(d, 0),
                    name_length |-> name_length,
                    name_slice |-> name_slice_of(d, name_length),
                    name |-> from_utf8_or_default(name_slice_of(d, name_length)) ]

\* ------------------------------------------------------------------- texts

\* A String or &str is held as the sequence of its characters.
starts_with(s, prefix) ==
    Len(s) >= Len(prefix) /\ SubSeq(s, 1, Len(prefix)) = prefix

is_empty(s) == Len(s) = 0

\* the text literals of the source
Str_0x == <<"0", "x">>
Str_authority == <<"a", "u", "t", "h", "o", "r", "i", "t", "y">>
Str_Alice == <<"A", "l", "i", "c", "e">>
Str_Bob == <<"B", "o", "b">>
Str_Charlie == <<"C", "h", "a", "r", "l", "i", "e">>
Str_0x123abc == <<"0", "x", "1", "2", "3", "a", "b", "c">>
Str_valid_sig == <<"v", "a", "l", "i", "d", "_", "s", "i", "g">>
Str_Solana_Monkeys ==
    <<"S", "o", "l", "a", "n", "a", " ", "M", "o", "n", "k", "e", "y", "s">>

\* ------------------------------------------------------- trait Transaction

\* struct TokenTransfer { from, to, amount_lamports, sig }
TokenTransfer(from, to, amount_lamports, sig) ==
    [ type |-> "TokenTransfer", from |-> from, to |-> to,
      amount_lamports |-> amount_lamports, sig |-> sig ]

\* struct NFTTransfer { collection, token_id, new_owner, signed_by, sig }
NFTTransfer(collection, token_id, new_owner, signed_by, sig) ==
    [ type |-> "NFTTransfer", collection |-> collection, token_id |-> token_id,
      new_owner |-> new_owner, signed_by |-> signed_by, sig |-> sig ]

\* impl Transaction for TokenTransfer
TokenTransfer_amount(self) == self.amount_lamports

TokenTransfer_verify(self) == starts_with(self.sig, Str_0x)

\* impl Transaction for NFTTransfer
NFTTransfer_amount(self) == 1

NFTTransfer_verify(self) ==
    ~is_empty(self.sig) /\ self.signed_by = Str_authority

\* dynamic dispatch of the required methods of Transaction
Transaction_signature(self) == self.sig

Transaction_amount(self) ==
    IF self.type = "TokenTransfer" THEN TokenTransfer_amount(self)
    ELSE NFTTransfer_amount(self)

Transaction_verify(self) ==
    IF self.type = "TokenTransfer" THEN TokenTransfer_verify(self)
    ELSE NFTTransfer_verify(self)

Transaction_is_valid_default_verify_only(self) == Transaction_verify(self)

\* the default method: fn is_valid(&self) -> bool
Transaction_is_valid_default(self) ==
    Transaction_verify(self) /\ Transaction_amount(self) > 0

NFTTransfer_is_valid_any_token(self) ==
    Transaction_verify(self) /\ ~is_empty(self.collection)

NFTTransfer_is_valid_unverified(self) ==
    self.token_id > 0 /\ ~is_empty(self.collection)

\* the override of NFTTransfer
NFTTransfer_is_valid(self) ==
    Transaction_verify(self) /\ self.token_id > 0 /\ ~is_empty(self.collection)

\* dynamic dispatch of is_valid: TokenTransfer keeps the default
Transaction_is_valid(self) ==
    IF self.type = "NFTTransfer" THEN NFTTransfer_is_valid(self)
    ELSE Transaction_is_valid_default(self)

\* the line `Transaction #{}: Valid = {}`
ValidityReport(index, valid) == [index |-> index, valid |-> valid]

RECURSIVE validate_loop_until_invalid(_, _)
validate_loop_until_invalid(transactions, i) ==
    IF i >= Len(transactions) THEN << >>
    ELSE IF ~Transaction_is_valid(At(transactions, i))
         THEN << ValidityReport(i + 1, FALSE) >>
         ELSE << ValidityReport(i + 1, TRUE) >>
              \o validate_loop_until_invalid(transactions, i + 1)

RECURSIVE validate_loop(_, _)
\* `for (i, tx) in txs.iter().enumerate() { println!(.., i + 1, tx.is_valid()) }`
\* from iteration i on
validate_loop(transactions, i) ==
    IF i >= Len(transactions) THEN << >>
    ELSE << ValidityReport(i + 1, Transaction_is_valid(At(transactions, i))) >>
         \o validate_loop(transactions, i + 1)

\* fn validate_transactions(txs: &[Box<dyn Transaction>]): the count of the
\* first line and the lines of the loop
validate_transactions(transactions) ==
    [ count |-> Len(transactions), reports |-> validate_loop(transactions, 0) ]

\* ----------------------------------------------------------- trait Account

Str_TokenProg == <<"T", "o", "k", "e", "n", "P", "r", "o", "g">>

\* struct UserAccount { name, lamports }
UserAccount(name, lamports) ==
    [ type |-> "UserAccount", name |-> name, lamports |-> lamports ]

\* struct ProgramAccount { id, is_executable }
ProgramAccount(id, is_executable) ==
    [ type |-> "ProgramAccount", id |-> id, is_executable |-> is_executable ]

\* impl Account for UserAccount
UserAccount_lamports(self) == self.lamports

ProgramAccount_lamports_if_executable(self) ==
    IF self.is_executable THEN PROGRAM_ACCOUNT_LAMPORTS ELSE 0

\* impl Account for ProgramAccount
ProgramAccount_lamports(self) == PROGRAM_ACCOUNT_LAMPORTS

\* dynamic dispatch of lamports
Account_lamports(self) ==
    IF self.type = "UserAccount" THEN UserAccount_lamports(self)
    ELSE ProgramAccount_lamports(self)

Account_is_rent_exempt_above(self) ==
    Account_lamports(self) > RENT_EXEMPT_MIN_LAMPORTS

\* the default method: fn is_rent_exempt(&self) -> bool
Account_is_rent_exempt(self) ==
    Account_lamports(self) >= RENT_EXEMPT_MIN_LAMPORTS

\* display_info(&self): the account after the call and the line printed
UserAccount_display_info(self) ==
    [ self |-> self,
      line |-> [kind |-> "User Account", name |-> self.name, balance |-> self.lamports] ]

ProgramAccount_display_info(self) ==
    [ self |-> self,
      line |-> [kind |-> "Program Account", id |-> self.id,
                executable |-> self.is_executable] ]

Account_display_info_charging(self) ==
    IF self.type = "UserAccount"
    THEN [ UserAccount_display_info(self) EXCEPT !.self.lamports = self.lamports \div 2 ]
    ELSE ProgramAccount_display_info(self)

\* dynamic dispatch of display_info
Account_display_info(self) ==
    IF self.type = "UserAccount" THEN UserAccount_display_info(self)
    ELSE ProgramAccount_display_info(self)

\* ---------------------------------------------------------- error handling

\* enum TokenError
TokenError == {"InsufficientBalance", "AccountNotFound", "UnauthorizedSigner", "InvalidAmount"}

\* enum ComplexError { Token(TokenError), Network(String), Serialization }
ComplexError_Token(err) == [variant |-> "Token", inner |-> err]
ComplexError_Network(message) == [variant |-> "Network", message |-> message]
ComplexError_Serialization == [variant |-> "Serialization"]

ComplexError_from_dropping_invalid_amount(err) ==
    IF err = "InvalidAmount" THEN ComplexError_Serialization
    ELSE ComplexError_Token(err)

\* impl From<TokenError> for ComplexError
ComplexError_from(err) == ComplexError_Token(err)

\* Result and Option values
Ok(value) == [ok |-> TRUE, value |-> value]
Err(err) == [ok |-> FALSE, err |-> err]
Some(value) == [some |-> TRUE, value |-> value]
None == [some |-> FALSE]

Str_alice == <<"a", "l", "i", "c", "e">>
Str_bob == <<"b", "o", "b">>
Str_missing == <<"m", "i", "s", "s", "i", "n", "g">>
Str_carol == <<"c", "a", "r", "o", "l">>
Str_Alices_Account == <<"A", "l", "i", "c", "e", "'", "s", " ", "A", "c", "c", "o", "u", "n", "t">>
Str_Bobs_Account == <<"B", "o", "b", "'", "s", " ", "A", "c", "c", "o", "u", "n", "t">>

DigitChar == <<"0", "1", "2", "3", "4", "5", "6", "7", "8", "9">>

RECURSIVE to_string(_)
\* the decimal text of an unsigned number, as `{}` formats it
to_string(n) ==
    IF n < 10 THEN << DigitChar[n + 1] >>
    ELSE to_string(n \div 10) \o << DigitChar[(n % 10) + 1] >>

find_account_any(id) ==
    IF id = Str_bob THEN Some(Str_Bobs_Account) ELSE Some(Str_Alices_Account)

\* fn find_account(id: &str) -> Option<String>
find_account(id) ==
    CASE id = Str_alice -> Some(Str_Alices_Account)
      [] id = Str_bob -> Some(Str_Bobs_Account)
      [] OTHER -> None

transfer_tokens_amount_first(from, to, amount) ==
    IF amount > 1000 THEN Err("InsufficientBalance")
    ELSE IF amount = 0 THEN Err("InvalidAmount")
    ELSE IF from = Str_missing THEN Err("AccountNotFound")
    ELSE Ok(<<"t", "x", "-">> \o from \o <<"-">> \o to \o <<"-">> \o to_string(amount))

\* fn transfer_tokens(from: &str, to: &str, amount: u64) -> TokenResult<String>
transfer_tokens(from, to, amount) ==
    IF from = Str_missing THEN Err("AccountNotFound")
    ELSE IF amount > 1000 THEN Err("InsufficientBalance")
    ELSE IF amount = 0 THEN Err("InvalidAmount")
    ELSE Ok(<<"t", "x", "-">> \o from \o <<"-">> \o to \o <<"-">> \o to_string(amount))

\* format!("Processed: {} -> {} ({}): {}", from_account, to_account, amount, tx_id)
format_processed(from_account, to_account, amount, tx_id) ==
    <<"P", "r", "o", "c", "e", "s", "s", "e", "d", ":", " ">> \o from_account \o <<" ", "-", ">", " ">> \o to_account \o <<" ", "(">>
    \o to_string(amount) \o <<")", ":", " ">> \o tx_id

return_err_as_not_found(err) == Err("AccountNotFound")

\* `Err(err) => return Err(err)`
return_err(err) == Err(err)

\* fn process_transaction_with_result(from, to, amount)
process_transaction_with_result(from, to, amount) ==
    LET from_account == find_account(from)
        to_account == find_account(to)
        tx_id == transfer_tokens(from, to, amount)
    IN  IF ~from_account.some THEN Err("AccountNotFound")
        ELSE IF ~to_account.some THEN Err("AccountNotFound")
        ELSE IF ~tx_id.ok THEN return_err(tx_id.err)
        ELSE Ok(format_processed(from_account.value, to_account.value, amount,
                                 tx_id.value))

\* Option::ok_or
ok_or(option, err) == IF option.some THEN Ok(option.value) ELSE Err(err)

question_mark_err_as_unauthorized(err) == Err("UnauthorizedSigner")

\* the `?` operator on an Err of the function's own error type: returns
\* Err(From::from(err)), where From<TokenError> for TokenError is reflexive
question_mark_err(err) == Err(err)

\* fn process_transaction_with_question_mark(from, to, amount)
process_transaction_with_question_mark(from, to, amount) ==
    LET from_account == ok_or(find_account(from), "AccountNotFound")
        to_account == ok_or(find_account(to), "AccountNotFound")
        tx_id == transfer_tokens(from, to, amount)
    IN  IF ~from_account.ok THEN question_mark_err(from_account.err)
        ELSE IF ~to_account.ok THEN question_mark_err(to_account.err)
        ELSE IF ~tx_id.ok THEN question_mark_err(tx_id.err)
        ELSE Ok(format_processed(from_account.value, to_account.value, amount,
                                 tx_id.value))

contains_as_prefix(s, pattern) == starts_with(s, pattern)

\* str::contains
contains(s, pattern) ==
    \E k \in 1..(Len(s) - Len(pattern) + 1) :
        SubSeq(s, k, k + Len(pattern) - 1) = pattern

\* fn run_complex_operation() -> Result<String, ComplexError>
run_complex_operation ==
    LET tx_id == transfer_tokens(Str_alice, Str_bob, 100)
    IN  IF ~tx_id.ok THEN Err(ComplexError_from(tx_id.err))
        ELSE IF contains(tx_id.value, <<"1", "0", "0">>)
             THEN Err(ComplexError_Network(<<"T", "i", "m", "e", "o", "u", "t">>))
             ELSE Ok(<<"O", "p", "e", "r", "a", "t", "i", "o", "n", " ", "c", "o", "m", "p", "l", "e", "t", "e", ":", " ">> \o tx_id.value)

\* --------------------------------------- Solana-style process_instruction

\* the line `Processing {} instruction`
ProcessingReport(name) == [kind |-> "Processing", instruction_type |-> name]

solana_process_instruction_ignoring_accounts(instruction, accounts, bytes) ==
    IF instruction \notin {0, 1, 2}
    THEN [result |-> Err("InvalidInstruction"), out |-> << >>]
    ELSE [result |-> Ok(<< >>),
          out |-> << ProcessingReport(CASE instruction = 0 -> "Initialize"
                                        [] instruction = 1 -> "Transfer"
                                        [] instruction = 2 -> "Mint") >>]

\* fn process_instruction(instruction: u8, accounts: Vec<&str>, data: &[u8])
\* of solana_error_handling_examples, as [result, out]: what it returned
\* (Ok(()) is Ok of the empty tuple) and the lines it printed
solana_process_instruction(instruction, accounts, bytes) ==
    IF instruction \notin {0, 1, 2}
    THEN [result |-> Err("InvalidInstruction"), out |-> << >>]
    ELSE LET name == CASE instruction = 0 -> "Initialize"
                       [] instruction = 1 -> "Transfer"
                       [] instruction = 2 -> "Mint"
         IN  IF Len(accounts) = 0
             THEN [result |-> Err("InvalidInstruction"),
                   out |-> << ProcessingReport(name) >>]
             ELSE [result |-> Ok(<< >>), out |-> << ProcessingReport(name) >>]

\* ------------------------------------------- the core operations, by statement

\* the line `Validating {} transactions...`
CountLine(n) == [kind |-> "Count", count |-> n]

\* the line `Token pair name: {}`
NameLine(name) == [kind |-> "Name", name |-> name]

\* the threads of a host that calls the operations concurrently
Threads == {1, 2}

FrameShared(t) == 1

\* the stack frame of the call of thread t: locals are per call
FrameOf(t) == t

loop_continues_short(i, n) == i + 1 < n

\* `for (i, tx) in txs.iter().enumerate()`: whether there is an i-th element
loop_continues(i, n) == i < n

\* what the operation of call c does when it runs alone, as [panic, out]
AloneResult(c) ==
    CASE c.op = "process_instruction" -> process_instruction(c.arg)
      [] c.op = "validate_transactions" ->
            LET v == validate_transactions(c.arg)
            IN  Returned(<< CountLine(v.count) >> \o v.reports)
      [] c.op = "parse_account" ->
            LET p == parse_account(c.arg)
            IN  IF p.panic THEN Panicked(<< >>)
                ELSE Returned(<< NameLine(p.name) >>)

\* ------------------------------------------------------------------ inputs

\* `let transaction_data: Vec<u8> = vec![2, 0, 0, 0, 100, 0, 0, 0, 50, 0, 0, 0];`
transaction_data == <<2, 0, 0, 0, 100, 0, 0, 0, 50, 0, 0, 0>>

\* `let account_data = vec![1, 0, 0, 0, 255, 255, 255, 255, 5, 0, 0, 0, 83, ...];`
sample_account_data ==
    <<1, 0, 0, 0, 255, 255, 255, 255, 5, 0, 0, 0, 83, 79, 76, 47, 85, 83, 68, 67>>

OpBytes == {0, 1, 2, 3, 4, 5, 255}
Pads == { <<0, 0, 0>>, <<7, 8, 9>> }
Words ==
    { <<a, b, c, d>> : a \in {0, 255}, b \in {0, 255}, c \in {0, 255}, d \in {0, 255} }
    \cup { <<100, 0, 0, 0>>, <<50, 0, 0, 0>>, <<1, 2, 3, 4>> }
Tails == SeqsUpTo({0, 255}, MaxTail)

\* the byte buffers handed to process_instruction: every prefix (the empty
\* one included) of opcode, three bytes, two 4-byte words, trailing bytes
InstructionBuffers ==
    UNION { Prefixes(<<op>> \o pad \o amount \o recipient \o tail) :
                op \in OpBytes, pad \in Pads, amount \in Words,
                recipient \in Words, tail \in Tails }

\* the amounts and decimals given to instruction_data!
EncodeAmounts == {0, 1, 100, 1000, 65536, 305419896, -1}
EncodeDecimals == {0, 9, 255}

TypeTags == {0, 1, 255}
FixedFields == { <<0, 0, 0, 0, 0, 0, 0>>, <<0, 0, 0, 255, 255, 255, 255>> }
NameBytes == {65, 195, 169, 255}
NameLengths == 0..(MaxBody + 1) \cup {255}

\* the byte buffers of the account-record parse: every prefix of type tag,
\* seven bytes, length byte, body; and the buffer of slice_examples
AccountBuffers ==
    UNION { Prefixes(<<tag>> \o fixed \o <<n>> \o body) :
                tag \in TypeTags, fixed \in FixedFields, n \in NameLengths,
                body \in SeqsUpTo(NameBytes, MaxBody) }
    \cup { sample_account_data }

TokenSigs == { << >>, <<"0">>, Str_0x123abc, <<"1", "2", "3", "0", "x">> }
TokenAmounts == {0, 1, 2000000000}
NFTSigs == { << >>, Str_valid_sig }
Signers == { Str_authority, <<"a", "t", "t", "a", "c", "k", "e", "r">> }
TokenIds == {0, 42}
Collections == { << >>, Str_Solana_Monkeys }

\* the transactions a collection is built from
Transactions ==
    { TokenTransfer(Str_Alice, Str_Bob, a, sig) : a \in TokenAmounts, sig \in TokenSigs }
    \cup { NFTTransfer(c, id, Str_Charlie, by, sig) :
               c \in Collections, id \in TokenIds, by \in Signers, sig \in NFTSigs }

UserLamports == {0, 890879, 890880, 890881, 50000000}

\* the accounts of trait_objects_example, with other balances and flags
Accounts ==
    { UserAccount(Str_Alice, l) : l \in UserLamports }
    \cup { ProgramAccount(Str_TokenProg, x) : x \in BOOLEAN }

\* the arguments of the transfer functions
AccountIds == { Str_alice, Str_bob, Str_missing, Str_carol }
TransferAmounts == {0, 1, 50, 100, 1000, 1001, 999999}
Calls == [from : AccountIds, to : AccountIds, amount : TransferAmounts]

\* the functions a call is given to
TransferFunctions ==
    {"transfer_tokens", "process_transaction_with_result",
     "process_transaction_with_question_mark"}

\* the arguments of the Solana-style process_instruction: an opcode, up to
\* two account names, some bytes
SolanaCalls ==
    [ instruction : {0, 1, 2, 3, 255},
      accounts : { << >>, << "Account1" >>, << "Account1", "Account2" >> },
      data : { << >>, <<0, 0, 0, 5>>, <<255>> } ]

\* the concurrent calls: an operation and the input its caller owns
HostCalls ==
    LET buffers ==
            { << >>, <<2, 0, 0>>, <<0, 0, 0, 0>>, <<1, 0, 0, 0>>, <<2, 0, 0, 0>>,
              <<9, 0, 0, 0>>, transaction_data }
        transactions ==
            { TokenTransfer(Str_Alice, Str_Bob, 1, Str_0x123abc),
              NFTTransfer(Str_Solana_Monkeys, 0, Str_Charlie, Str_authority,
                          Str_valid_sig) }
        account_buffers ==
            { << >>, <<1, 0, 0, 0, 0, 0, 0, 0>>, <<1, 0, 0, 0, 0, 0, 0, 0, 0>>,
              <<1, 0, 0, 0, 0, 0, 0, 0, 5, 65>>, sample_account_data }
    IN  { [op |-> "process_instruction", arg |-> b] : b \in buffers }
        \cup { [op |-> "validate_transactions", arg |-> c] :
                   c \in SeqsUpTo(transactions, MaxTxs) }
        \cup { [op |-> "parse_account", arg |-> b] : b \in account_buffers }

\* ------------------------------------------------------ the sections of main

RECURSIVE DecimalValue(_)
\* the number a text of digits denotes, accumulated digit by digit as u64
\* does: four 16-bit limbs (least significant first), and whether a
\* multiplication by 10 or an addition of a digit went past u64::MAX
DecimalValue(s) ==
    IF Len(s) = 0 THEN [overflow |-> FALSE, limbs |-> <<0, 0, 0, 0>>]
    ELSE LET front == DecimalValue(SubSeq(s, 1, Len(s) - 1))
             digit == CHOOSE d \in 0..9 : DigitChar[d + 1] = s[Len(s)]
             a0 == front.limbs[1] * 10 + digit
             a1 == front.limbs[2] * 10 + (a0 \div 65536)
             a2 == front.limbs[3] * 10 + (a1 \div 65536)
             a3 == front.limbs[4] * 10 + (a2 \div 65536)
         IN  [ overflow |-> front.overflow \/ a3 >= 65536,
               limbs |-> <<a0 % 65536, a1 % 65536, a2 % 65536, a3 % 65536>> ]

\* str::parse::<u64>: an optional "+", then one or more digits, any number
\* of them, whose value is at most u64::MAX; the value is held as two u32
\* halves
parse_u64(s) ==
    LET digits == IF Len(s) > 0 /\ s[1] = "+" THEN Tail(s) ELSE s
    IN  IF Len(digits) = 0 THEN Err("ParseIntError")
        ELSE IF \E k \in 1..Len(digits) :
                    \A d \in 1..10 : digits[k] # DigitChar[d]
             THEN Err("ParseIntError")
        ELSE LET v == DecimalValue(digits)
             IN  IF v.overflow THEN Err("ParseIntError")
                 ELSE Ok([ hi |-> U32(v.limbs[4], v.limbs[3]),
                           lo |-> U32(v.limbs[2], v.limbs[1]) ])

\* HashMap::insert; a map is a function on its keys, the empty map << >>
HashMap_insert(m, k, v) ==
    [x \in DOMAIN m \cup {k} |-> IF x = k THEN v ELSE m[x]]

entry_or_insert_never(m, k, v) == m

\* HashMap::entry(k).or_insert(v)
entry_or_insert(m, k, v) == IF k \in DOMAIN m THEN m ELSE HashMap_insert(m, k, v)

\* Each section is what it does to main: [panic |-> whether one of its
\* unwrap, expect, index, slice or assert operations panics].

\* `balance.parse::<u64>().unwrap()` of "50"
shadowing_examples == [panic |-> ~parse_u64(<<"5", "0">>).ok]

\* the slices of the arrays, process_instruction(&transaction_data) and the
\* account-record statements on account_data
slice_examples ==
    LET token_amounts == <<100, 200, 300, 400, 500>>
        accounts == <<"Alice", "Bob", "Charlie", "Dave", "Eve">>
        bytes == <<0, 1, 2, 3, 4, 5, 6, 7, 8, 9>>
    IN  [panic |->
            \/ ~SliceInBounds(token_amounts, 1, 4)
            \/ ~SliceInBounds(accounts, 2, Len(accounts))
            \/ ~SliceInBounds(bytes, 0, 2)
            \/ ~SliceInBounds(bytes, 2, 8)
            \/ ~SliceInBounds(bytes, 8, Len(bytes))
            \/ process_instruction(transaction_data).panic
            \/ parse_account(sample_account_data).panic]

\* `token_ids[0]`, `token_balances[1]` after three pushes, and
\* `token_balances[0] = 150` after the pop, behind `len() > 0`
arrays_and_vectors ==
    LET token_ids == <<1, 2, 3, 4>>
        pushed == Append(Append(Append(<< >>, 100), 200), 300)
        popped == SubSeq(pushed, 1, Len(pushed) - 1)
    IN  [panic |->
            \/ ~InBounds(token_ids, 0)
            \/ ~InBounds(pushed, 1)
            \/ (Len(popped) > 0 /\ ~InBounds(popped, 0))]

\* `find_account("alice").unwrap()` and
\* `transfer_tokens("alice", "bob", 25).expect(..)`; the matches before them
\* and `run_complex_operation().unwrap_or_else(..)` handle both outcomes
error_handling_basics ==
    [panic |->
        \/ ~find_account(Str_alice).some
        \/ ~transfer_tokens(Str_alice, Str_bob, 25).ok]

\* `token_balances["Dave"]` after the inserts, the remove of "Bob", the two
\* entry("Dave").or_insert(0) and the `+= 50`
hashmap_examples ==
    LET Dave == <<"D", "a", "v", "e">>
        inserted == HashMap_insert(HashMap_insert(HashMap_insert(<< >>,
                        Str_Alice, 100), Str_Bob, 200), Str_Charlie, 300)
        removed == [x \in DOMAIN inserted \ {Str_Bob} |-> inserted[x]]
        entered == entry_or_insert(entry_or_insert(removed, Dave, 0), Dave, 0)
        updated == [x \in DOMAIN entered |->
                        IF x = Dave THEN entered[x] + 50 ELSE entered[x]]
    IN  [panic |-> Dave \notin DOMAIN updated]

\* `assert!(amount > 0)`, `assert_eq!(amount, 100)` and `if false { panic!() }`
\* with amount = 100
macro_examples ==
    LET amount == 100
    IN  [panic |-> ~(amount > 0) \/ amount # 100 \/ (FALSE /\ TRUE)]

\* the sections in the order main calls them
MainSections ==
    << "printing_examples", "variables_and_mutability", "shadowing_examples",
       "basic_data_types", "control_flow_examples", "complex_pattern_matching",
       "stack_vs_heap_examples", "ownership_basics", "references_and_borrowing",
       "lifetime_examples", "string_and_slice_examples", "slice_examples",
       "generic_examples", "trait_examples", "trait_objects_example",
       "arrays_and_vectors", "iterator_examples", "error_handling_basics",
       "solana_error_handling_examples", "hashmap_examples", "macro_examples" >>

\* the call of a section by its name
RunSectionNamed(name) ==
    CASE name = "shadowing_examples" -> shadowing_examples
      [] name = "slice_examples" -> slice_examples
      [] name = "arrays_and_vectors" -> arrays_and_vectors
      [] name = "error_handling_basics" -> error_handling_basics
      [] name = "hashmap_examples" -> hashmap_examples
      [] name = "macro_examples" -> macro_examples
      [] name = "references_and_borrowing" ->
            \* `assert_eq!(5, *y)` with y = &x, x = 5
            LET x == 5 IN [panic |-> 5 # x]
      [] name = "string_and_slice_examples" ->
            \* the slices of full_key and serialized_data (ASCII: every
            \* index is a character boundary)
            LET full_key ==
                    <<"T", "o", "k", "e", "n", "k", "e", "g", "Q", "f", "e",
                      "Z", "y", "i", "N", "w", "A", "J", "b", "N", "b", "G",
                      "K", "P", "F", "X", "C", "W", "u", "B", "v", "f", "9",
                      "S", "s", "6", "2", "3", "V", "Q", "5", "D", "A">>
                serialized_data ==
                    <<"0", "1", "0", "0", "0", "0", "0", "0", "0", "5", "0",
                      "0", "0", "0", "0", "0", "4", "e", "4", "1", "4", "d",
                      "4", "5", "0", "0">>
            IN  [panic |->
                    \/ ~SliceInBounds(full_key, 0, 5)
                    \/ ~SliceInBounds(full_key, 5, Len(full_key))
                    \/ ~SliceInBounds(full_key, 0, Len(full_key))
                    \/ ~SliceInBounds(serialized_data, 10, 18)]
      [] name = "generic_examples" ->
            \* get_first(&numbers): `collection[0]` behind `is_empty()`
            LET numbers == <<1, 2, 3, 4, 5>>
            IN  [panic |-> Len(numbers) # 0 /\ ~InBounds(numbers, 0)]
      [] name \in { "printing_examples", "variables_and_mutability",
                    "basic_data_types", "control_flow_examples",
                    "complex_pattern_matching", "stack_vs_heap_examples",
                    "ownership_basics", "lifetime_examples", "trait_examples",
                    "trait_objects_example", "iterator_examples",
                    "solana_error_handling_examples" } ->
            \* no unwrap, expect, index, slice or assert: prints, matches
            \* and iterators over literals, arithmetic far from overflow
            [panic |-> FALSE]

\* ----------------------------------------------------------- state machine

NoRequest == [kind |-> "none"]
NoResult == [panic |-> FALSE, out |-> << >>]
NoParse == [panic |-> FALSE]
NoValidation == [count |-> 0, reports |-> << >>]
NoAccount == [type |-> "none"]
NoComplexError == [variant |-> "none"]
NoCall == [from |-> << >>, to |-> << >>, amount |-> 0]
Pending == [pending |-> TRUE]
NoOutcome == [f \in TransferFunctions |-> Pending]

Init ==
    /\ pc = "idle"
    /\ request = NoRequest
    /\ data = << >>
    /\ result = NoResult
    /\ account_data = << >>
    /\ parsed = NoParse
    /\ txs = << >>
    /\ validation = NoValidation
    /\ account = NoAccount
    /\ display_out = << >>
    /\ rent_exempt = FALSE
    /\ token_error = "none"
    /\ complex_error = NoComplexError
    /\ call = NoCall
    /\ outcome = NoOutcome
    /\ complex_result = Pending
    /\ sol_call = [instruction |-> 0, accounts |-> << >>, data |-> << >>]
    /\ sol_result = Pending
    /\ calls = [t \in Threads |-> [op |-> "none", arg |-> << >>]]
    /\ cpc = [t \in Threads |-> "idle"]
    /\ frame = [t \in Threads |-> [instruction_type |-> 0, i |-> 0, name_length |-> 0]]
    /\ stdout = << >>
    /\ iterations = [t \in Threads |-> 0]
    /\ main_state = "not_started"
    /\ main_at = 0

\* a caller holds bytes that came from outside
ReceiveInstruction ==
    /\ pc = "idle"
    /\ \E b \in InstructionBuffers : data' = b
    /\ request' = [kind |-> "raw"]
    /\ pc' = "instruction_ready"
    /\ UNCHANGED <<result, account_data, parsed>>
    /\ UNCHANGED <<txVars, entityVars, errorVars>>
    /\ UNCHANGED <<programVars, hostVars, main_state, main_at>>

\* a caller builds the bytes with instruction_data!(transfer, amount)
EncodeTransfer ==
    /\ pc = "idle"
    /\ \E amount \in EncodeAmounts :
          /\ data' = instruction_data_transfer(amount)
          /\ request' = [kind |-> "transfer", amount |-> amount]
    /\ pc' = "instruction_ready"
    /\ UNCHANGED <<result, account_data, parsed>>
    /\ UNCHANGED <<txVars, entityVars, errorVars>>
    /\ UNCHANGED <<programVars, hostVars, main_state, main_at>>

\* a caller builds the bytes with instruction_data!(mint, amount, decimals)
EncodeMint ==
    /\ pc = "idle"
    /\ \E amount \in EncodeAmounts, decimals \in EncodeDecimals :
          /\ data' = instruction_data_mint(amount, decimals)
          /\ request' = [kind |-> "mint", amount |-> amount, decimals |-> decimals]
    /\ pc' = "instruction_ready"
    /\ UNCHANGED <<result, account_data, parsed>>
    /\ UNCHANGED <<txVars, entityVars, errorVars>>
    /\ UNCHANGED <<programVars, hostVars, main_state, main_at>>

\* process_instruction(&data)
ProcessInstruction ==
    /\ pc = "instruction_ready"
    /\ result' = process_instruction(data)
    /\ pc' = "instruction_done"
    /\ UNCHANGED <<request, data, account_data, parsed>>
    /\ UNCHANGED <<txVars, entityVars, errorVars>>
    /\ UNCHANGED <<programVars, hostVars, main_state, main_at>>

\* a caller holds the bytes of an account
ReceiveAccount ==
    /\ pc = "idle"
    /\ \E b \in AccountBuffers : account_data' = b
    /\ pc' = "account_ready"
    /\ UNCHANGED <<request, data, result, parsed>>
    /\ UNCHANGED <<txVars, entityVars, errorVars>>
    /\ UNCHANGED <<programVars, hostVars, main_state, main_at>>

\* the account-record statements of slice_examples
ParseAccount ==
    /\ pc = "account_ready"
    /\ parsed' = parse_account(account_data)
    /\ pc' = "account_done"
    /\ UNCHANGED <<request, data, result, account_data>>
    /\ UNCHANGED <<txVars, entityVars, errorVars>>
    /\ UNCHANGED <<programVars, hostVars, main_state, main_at>>

\* a caller builds a collection of transactions
ReceiveTransactions ==
    /\ pc = "idle"
    /\ \E c \in SeqsUpTo(Transactions, MaxTxs) : txs' = c
    /\ pc' = "transactions_ready"
    /\ UNCHANGED <<validation, codecVars, entityVars, errorVars>>
    /\ UNCHANGED <<programVars, hostVars, main_state, main_at>>

\* validate_transactions(&txs)
ValidateTransactions ==
    /\ pc = "transactions_ready"
    /\ validation' = validate_transactions(txs)
    /\ pc' = "transactions_done"
    /\ UNCHANGED <<txs, codecVars, entityVars, errorVars>>
    /\ UNCHANGED <<programVars, hostVars, main_state, main_at>>

\* Box::new(UserAccount { .. }) or Box::new(ProgramAccount { .. })
CreateAccount ==
    /\ pc = "idle"
    /\ \E a \in Accounts : account' = a
    /\ pc' = "entity_live"
    /\ UNCHANGED <<display_out, rent_exempt, codecVars, txVars, errorVars>>
    /\ UNCHANGED <<programVars, hostVars, main_state, main_at>>

\* account.display_info()
DisplayInfo ==
    /\ pc = "entity_live"
    /\ Len(display_out) < MaxDisplays
    /\ LET shown == Account_display_info(account)
       IN  /\ account' = shown.self
           /\ display_out' = Append(display_out, shown.line)
    /\ UNCHANGED <<pc, rent_exempt, codecVars, txVars, errorVars>>
    /\ UNCHANGED <<programVars, hostVars, main_state, main_at>>

\* account.is_rent_exempt()
CheckRentExempt ==
    /\ pc = "entity_live"
    /\ rent_exempt' = Account_is_rent_exempt(account)
    /\ pc' = "entity_checked"
    /\ UNCHANGED <<account, display_out, codecVars, txVars, errorVars>>
    /\ UNCHANGED <<programVars, hostVars, main_state, main_at>>

\* ComplexError::from(err)
ConvertError ==
    /\ pc = "idle"
    /\ \E err \in TokenError :
          /\ token_error' = err
          /\ complex_error' = ComplexError_from(err)
    /\ pc' = "converted"
    /\ UNCHANGED <<call, outcome, codecVars, txVars, entityVars>>
    /\ UNCHANGED <<programVars, hostVars, main_state, main_at>>

\* a caller chooses from, to and amount
ReceiveCall ==
    /\ pc = "idle"
    /\ \E c \in Calls : call' = c
    /\ pc' = "call_ready"
    /\ UNCHANGED <<token_error, complex_error, outcome, codecVars, txVars, entityVars>>
    /\ UNCHANGED <<programVars, hostVars, main_state, main_at>>

\* transfer_tokens(from, to, amount)
CallTransferTokens ==
    /\ pc = "call_ready"
    /\ outcome["transfer_tokens"] = Pending
    /\ outcome' = [outcome EXCEPT !["transfer_tokens"] =
                       transfer_tokens(call.from, call.to, call.amount)]
    /\ UNCHANGED <<pc, token_error, complex_error, call, codecVars, txVars, entityVars>>
    /\ UNCHANGED <<programVars, hostVars, main_state, main_at>>

\* process_transaction_with_result(from, to, amount)
CallWithResult ==
    /\ pc = "call_ready"
    /\ outcome["process_transaction_with_result"] = Pending
    /\ outcome' = [outcome EXCEPT !["process_transaction_with_result"] =
                       process_transaction_with_result(call.from, call.to, call.amount)]
    /\ UNCHANGED <<pc, token_error, complex_error, call, codecVars, txVars, entityVars>>
    /\ UNCHANGED <<programVars, hostVars, main_state, main_at>>

\* process_transaction_with_question_mark(from, to, amount)
CallWithQuestionMark ==
    /\ pc = "call_ready"
    /\ outcome["process_transaction_with_question_mark"] = Pending
    /\ outcome' = [outcome EXCEPT !["process_transaction_with_question_mark"] =
                       process_transaction_with_question_mark(call.from, call.to,
                                                              call.amount)]
    /\ UNCHANGED <<pc, token_error, complex_error, call, codecVars, txVars, entityVars>>
    /\ UNCHANGED <<programVars, hostVars, main_state, main_at>>

oldVars == <<codecVars, txVars, entityVars, errorVars>>

\* run_complex_operation()
RunComplexOperation ==
    /\ pc = "idle"
    /\ complex_result' = run_complex_operation
    /\ pc' = "complex_done"
    /\ UNCHANGED <<sol_call, sol_result, hostVars, main_state, main_at, oldVars>>

\* a caller chooses instruction, accounts and data
ReceiveSolanaCall ==
    /\ pc = "idle"
    /\ \E c \in SolanaCalls : sol_call' = c
    /\ pc' = "solana_ready"
    /\ UNCHANGED <<complex_result, sol_result, hostVars, main_state, main_at, oldVars>>

\* process_instruction(instruction, accounts, data) of
\* solana_error_handling_examples
SolanaProcessInstruction ==
    /\ pc = "solana_ready"
    /\ sol_result' = solana_process_instruction(sol_call.instruction,
                                                sol_call.accounts, sol_call.data)
    /\ pc' = "solana_done"
    /\ UNCHANGED <<complex_result, sol_call, hostVars, main_state, main_at, oldVars>>

\* ---- two threads of a host, each making one call, statement by statement

\* println! by thread t: one line, appended under the lock of stdout
Emit(t, line) == stdout' = Append(stdout, [thread |-> t, line |-> line])

Goto(t, label) == cpc' = [cpc EXCEPT ![t] = label]

\* each thread is given an operation and an input it owns
SpawnCalls ==
    /\ pc = "idle"
    /\ \E c \in [Threads -> HostCalls] :
          /\ calls' = c
          /\ cpc' = [t \in Threads |->
                       CASE c[t].op = "process_instruction" -> "check_length"
                         [] c[t].op = "validate_transactions" -> "print_count"
                         [] c[t].op = "parse_account" -> "read_type_tag"]
    /\ pc' = "host"
    /\ UNCHANGED <<frame, stdout, iterations, programVars, main_state, main_at, oldVars>>

\* process_instruction: `if data.len() < 4 { println!(..); return; }`
CheckLength(t) ==
    /\ pc = "host" /\ cpc[t] = "check_length"
    /\ IF TooShort(calls[t].arg)
       THEN Emit(t, TooShortReport) /\ Goto(t, "done")
       ELSE Goto(t, "read_instruction_type") /\ UNCHANGED stdout
    /\ UNCHANGED <<pc, calls, frame, iterations, programVars, main_state, main_at, oldVars>>

\* process_instruction: `let instruction_type = data[0];`
ReadInstructionType(t) ==
    /\ pc = "host" /\ cpc[t] = "read_instruction_type"
    /\ IF InBounds(calls[t].arg, 0)
       THEN /\ frame' = [frame EXCEPT ![FrameOf(t)].instruction_type =
                                          instruction_type(calls[t].arg)]
            /\ Goto(t, "match_instruction_type")
       ELSE Goto(t, "panicked") /\ UNCHANGED frame
    /\ UNCHANGED <<pc, calls, stdout, iterations, programVars, main_state, main_at, oldVars>>

\* process_instruction: `match instruction_type { .. }`, up to the line of
\* the arm
MatchInstructionType(t) ==
    /\ pc = "host" /\ cpc[t] = "match_instruction_type"
    /\ LET ty == frame[FrameOf(t)].instruction_type
       IN  CASE ty = 0 -> Emit(t, InitializeReport) /\ Goto(t, "done")
             [] ty = 1 -> Emit(t, CreateAccountReport) /\ Goto(t, "done")
             [] ty = 2 -> /\ Emit(t, TransferReport)
                          /\ IF HasTransferPayload(calls[t].arg)
                             THEN Goto(t, "read_transfer_fields")
                             ELSE Goto(t, "done")
             [] OTHER -> Emit(t, UnknownReport(ty)) /\ Goto(t, "done")
    /\ UNCHANGED <<pc, calls, frame, iterations, programVars, main_state, main_at, oldVars>>

\* process_instruction: `if data.len() >= 12 { .. }`, the two from_le_bytes
\* and the line of the fields
ReadTransferFields(t) ==
    /\ pc = "host" /\ cpc[t] = "read_transfer_fields"
    /\ LET d == calls[t].arg
       IN  IF \A k \in 4..11 : InBounds(d, k)
           THEN /\ Emit(t, FieldsReport(
                        from_le_bytes_u32(At(d, 4), At(d, 5), At(d, 6), At(d, 7)),
                        from_le_bytes_u32(At(d, 8), At(d, 9), At(d, 10), At(d, 11))))
                /\ Goto(t, "done")
           ELSE Goto(t, "panicked") /\ UNCHANGED stdout
    /\ UNCHANGED <<pc, calls, frame, iterations, programVars, main_state, main_at, oldVars>>

\* validate_transactions: `println!("Validating {} transactions...", txs.len())`
\* and the start of the iterator
PrintCount(t) ==
    /\ pc = "host" /\ cpc[t] = "print_count"
    /\ Emit(t, CountLine(Len(calls[t].arg)))
    /\ frame' = [frame EXCEPT ![FrameOf(t)].i = 0]
    /\ Goto(t, "loop")
    /\ UNCHANGED <<pc, calls, iterations, programVars, main_state, main_at, oldVars>>

\* validate_transactions: one turn of the for loop, or its end
LoopIteration(t) ==
    /\ pc = "host" /\ cpc[t] = "loop"
    /\ LET i == frame[FrameOf(t)].i
       IN  IF loop_continues(i, Len(calls[t].arg))
           THEN /\ Emit(t, ValidityReport(i + 1,
                               Transaction_is_valid(At(calls[t].arg, i))))
                /\ frame' = [frame EXCEPT ![FrameOf(t)].i = i + 1]
                /\ iterations' = [iterations EXCEPT ![t] = @ + 1]
                /\ UNCHANGED cpc
           ELSE Goto(t, "done") /\ UNCHANGED <<stdout, frame, iterations>>
    /\ UNCHANGED <<pc, calls, programVars, main_state, main_at, oldVars>>

\* account-record parse: `let instruction_type = account_data[0];`
ReadTypeTag(t) ==
    /\ pc = "host" /\ cpc[t] = "read_type_tag"
    /\ IF InBounds(calls[t].arg, 0)
       THEN /\ frame' = [frame EXCEPT ![FrameOf(t)].instruction_type =
                                          At(calls[t].arg, 0)]
            /\ Goto(t, "read_name_length")
       ELSE Goto(t, "panicked") /\ UNCHANGED frame
    /\ UNCHANGED <<pc, calls, stdout, iterations, programVars, main_state, main_at, oldVars>>

\* account-record parse: `let name_length = account_data[8] as usize;`
ReadNameLength(t) ==
    /\ pc = "host" /\ cpc[t] = "read_name_length"
    /\ IF InBounds(calls[t].arg, NAME_LENGTH_OFFSET)
       THEN /\ frame' = [frame EXCEPT ![FrameOf(t)].name_length =
                                          At(calls[t].arg, NAME_LENGTH_OFFSET)]
            /\ Goto(t, "slice_name")
       ELSE Goto(t, "panicked") /\ UNCHANGED frame
    /\ UNCHANGED <<pc, calls, stdout, iterations, programVars, main_state, main_at, oldVars>>

\* account-record parse: the slice, from_utf8(..).unwrap_or(..) and the line
SliceName(t) ==
    /\ pc = "host" /\ cpc[t] = "slice_name"
    /\ LET d == calls[t].arg
           name_length == frame[FrameOf(t)].name_length
       IN  IF SliceInBounds(d, NAME_OFFSET, NAME_OFFSET + name_length)
           THEN /\ Emit(t, NameLine(from_utf8_or_default(name_slice_of(d, name_length))))
                /\ Goto(t, "done")
           ELSE Goto(t, "panicked") /\ UNCHANGED stdout
    /\ UNCHANGED <<pc, calls, frame, iterations, programVars, main_state, main_at, oldVars>>

\* ---- main

\* fn main() is entered
StartMain ==
    /\ pc = "idle"
    /\ pc' = "main"
    /\ main_state' = "running"
    /\ UNCHANGED <<main_at, programVars, hostVars, oldVars>>

\* main calls its next section; a panic in it ends main
RunSection ==
    /\ pc = "main" /\ main_state = "running"
    /\ main_at < Len(MainSections)
    /\ IF RunSectionNamed(MainSections[main_at + 1]).panic
       THEN main_state' = "panicked" /\ UNCHANGED main_at
       ELSE main_at' = main_at + 1 /\ UNCHANGED main_state
    /\ UNCHANGED <<pc, programVars, hostVars, oldVars>>

\* the last println! of main, after the last section
PrintCongratulations ==
    /\ pc = "main" /\ main_state = "running"
    /\ main_at = Len(MainSections)
    /\ main_state' = "done"
    /\ UNCHANGED <<pc, main_at, programVars, hostVars, oldVars>>

Next ==
    \/ ReceiveInstruction
    \/ EncodeTransfer
    \/ EncodeMint
    \/ ProcessInstruction
    \/ ReceiveAccount
    \/ ParseAccount
    \/ ReceiveTransactions
    \/ ValidateTransactions
    \/ CreateAccount
    \/ DisplayInfo
    \/ CheckRentExempt
    \/ ConvertError
    \/ ReceiveCall
    \/ CallTransferTokens
    \/ CallWithResult
    \/ CallWithQuestionMark
    \/ RunComplexOperation
    \/ ReceiveSolanaCall
    \/ SolanaProcessInstruction
    \/ SpawnCalls
    \/ \E t \in Threads : CheckLength(t)
    \/ \E t \in Threads : ReadInstructionType(t)
    \/ \E t \in Threads : MatchInstructionType(t)
    \/ \E t \in Threads : ReadTransferFields(t)
    \/ \E t \in Threads : PrintCount(t)
    \/ \E t \in Threads : LoopIteration(t)
    \/ \E t \in Threads : ReadTypeTag(t)
    \/ \E t \in Threads : ReadNameLength(t)
    \/ \E t \in Threads : SliceName(t)
    \/ StartMain
    \/ RunSection
    \/ PrintCongratulations

Spec == Init /\ [][Next]_vars

\* a started program keeps executing statements: some enabled step is
\* eventually taken (no assumption on which thread the scheduler picks)
FairSpec == Spec /\ WF_vars(Next)

\* ------------------------------------------------------------------ claims

InstructionDone == pc = "instruction_done"
AccountDone == pc = "account_done"

\* C1: round trip: decoding the buffer that instruction_data! built from a
\* non-negative amount gives back the opcode that was encoded (Transfer or
\* Mint) and that amount.
C1_RoundTrip ==
    (InstructionDone /\ request.kind \in {"transfer", "mint"} /\ request.amount >= 0) =>
        /\ ~result.panic
        /\ Len(result.out) = 2
        /\ result.out[1].kind = (IF request.kind = "transfer" THEN "Transfer" ELSE "Mint")
        /\ result.out[2].kind = "Fields"
        /\ result.out[2].amount = U32Of(request.amount)

\* C2: process_instruction returns normally on every buffer: no index it
\* reads is out of bounds, whatever the length and the contents.
C2_NeverPanics == InstructionDone => ~result.panic

\* C2 witness: a Transfer one byte short of its fields was processed.
C2_Witness ==
    /\ InstructionDone
    /\ Len(data) = TRANSFER_PAYLOAD_LEN - 1
    /\ At(data, 0) = 2
    /\ ~result.panic

\* the minimum size the claim gives each opcode: 12 for Transfer, whose
\* fields end at byte 12, and 4 for the others
MinimumFor(d) ==
    IF Len(d) >= 1 /\ At(d, 0) = 2 THEN TRANSFER_PAYLOAD_LEN ELSE MIN_INSTRUCTION_LEN

\* C3 as stated: a buffer shorter than the minimum size of its opcode is
\* rejected as too short, and nothing else is reported.
C3_TruncationPerOpcode ==
    (InstructionDone /\ Len(data) < MinimumFor(data)) =>
        result = Returned(<< TooShortReport >>)

\* C3 as amended: for every opcode the buffer is rejected as too short, with
\* no instruction reported, exactly when it is shorter than 4 bytes; a
\* Transfer of 4 to 11 bytes is not rejected.
C3_TruncationBelowFour ==
    InstructionDone =>
        /\ Len(data) < MIN_INSTRUCTION_LEN => result = Returned(<< TooShortReport >>)
        /\ Len(data) >= MIN_INSTRUCTION_LEN =>
              \A k \in 1..Len(result.out) : result.out[k] # TooShortReport

\* C3 witness: a 3-byte buffer with the Transfer opcode was rejected.
C3_Witness ==
    /\ InstructionDone
    /\ Len(data) = 3
    /\ At(data, 0) = 2
    /\ result = Returned(<< TooShortReport >>)

\* the opcodes process_instruction has an arm for
KnownOpcodes == {0, 1, 2}

\* C4 as stated: every buffer whose byte 0 is no known opcode is reported
\* as unknown, with that byte.
C4_UnknownAnyLength ==
    (InstructionDone /\ Len(data) >= 1 /\ At(data, 0) \notin KnownOpcodes) =>
        result = Returned(<< UnknownReport(At(data, 0)) >>)

\* C4 as amended: every buffer of at least 4 bytes whose byte 0 is no known
\* opcode is reported as unknown, and the byte reported is byte 0.
C4_UnknownFromFour ==
    (InstructionDone /\ Len(data) >= MIN_INSTRUCTION_LEN
                     /\ At(data, 0) \notin KnownOpcodes) =>
        result = Returned(<< UnknownReport(At(data, 0)) >>)

\* C4 witness: a buffer that starts with 255, followed by other bytes, was
\* reported as unknown instruction 255.
C4_Witness ==
    /\ InstructionDone
    /\ Len(data) >= MIN_INSTRUCTION_LEN
    /\ At(data, 0) = 255
    /\ At(data, 1) = 7
    /\ result.out = << UnknownReport(255) >>

\* the kind reports: one per instruction kind
KindReports(r) ==
    { k \in 1..Len(r.out) : r.out[k].kind # "Fields" }

\* C5 as stated: 0 -> Initialize, 1 -> CreateAccount, 2 -> Transfer,
\* 3 -> Mint, 4 -> Burn, 5..255 -> Unknown with the byte.
C5_DispatchWithMintAndBurn ==
    (InstructionDone /\ Len(data) >= MIN_INSTRUCTION_LEN) =>
        LET b == At(data, 0)
        IN  /\ ~result.panic
            /\ KindReports(result) = {1}
            /\ result.out[1] =
                 CASE b = 0 -> InitializeReport
                   [] b = 1 -> CreateAccountReport
                   [] b = 2 -> TransferReport
                   [] b = 3 -> [kind |-> "Mint"]
                   [] b = 4 -> [kind |-> "Burn"]
                   [] OTHER -> UnknownReport(b)

\* C5 as amended: 0 -> Initialize, 1 -> CreateAccount, 2 -> Transfer, and
\* every other value 3..255 -> Unknown with the byte; one kind per buffer.
C5_Dispatch ==
    (InstructionDone /\ Len(data) >= MIN_INSTRUCTION_LEN) =>
        LET b == At(data, 0)
        IN  /\ ~result.panic
            /\ KindReports(result) = {1}
            /\ result.out[1] =
                 CASE b = 0 -> InitializeReport
                   [] b = 1 -> CreateAccountReport
                   [] b = 2 -> TransferReport
                   [] OTHER -> UnknownReport(b)

\* C5 witness: a buffer with byte 0 = 3 was reported as unknown instruction 3.
C5_Witness ==
    /\ InstructionDone
    /\ Len(data) >= MIN_INSTRUCTION_LEN
    /\ At(data, 0) = 3
    /\ result = Returned(<< UnknownReport(3) >>)

\* C6: for a Transfer of at least 12 bytes the amount is bytes 4..7 and the
\* recipient id bytes 8..11, least significant byte first; no other byte
\* enters either value.  (Lower limb b[i] + 256*b[i+1], upper limb
\* b[i+2] + 256*b[i+3]; as one number where it fits.)
C6_LittleEndianFields ==
    (InstructionDone /\ Len(data) >= TRANSFER_PAYLOAD_LEN /\ At(data, 0) = 2) =>
        /\ result.panic = FALSE
        /\ Len(result.out) = 2
        /\ result.out[2].kind = "Fields"
        /\ result.out[2].amount.lo = At(data, 4) + 256 * At(data, 5)
        /\ result.out[2].amount.hi = At(data, 6) + 256 * At(data, 7)
        /\ result.out[2].recipient_id.lo = At(data, 8) + 256 * At(data, 9)
        /\ result.out[2].recipient_id.hi = At(data, 10) + 256 * At(data, 11)
        /\ At(data, 7) < 128 =>
              result.out[2].amount =
                  U32Of(At(data, 4) + 256 * At(data, 5) + 65536 * At(data, 6)
                        + 16777216 * At(data, 7))
        /\ At(data, 11) < 128 =>
              result.out[2].recipient_id =
                  U32Of(At(data, 8) + 256 * At(data, 9) + 65536 * At(data, 10)
                        + 16777216 * At(data, 11))

\* C6 witness: a 13-byte Transfer with non-zero bytes 1..3 and 12, amount
\* bytes 1,2,3,4 and recipient bytes 255,0,255,0 was decoded.
C6_Witness ==
    /\ InstructionDone
    /\ Len(data) = TRANSFER_PAYLOAD_LEN + 1
    /\ SubSeq(data, 1, 12) = <<2, 7, 8, 9, 1, 2, 3, 4, 255, 0, 255, 0>>
    /\ At(data, 12) = 255
    /\ result.out[2] = FieldsReport(U32Of(67305985), U32Of(16711935))

\* C7: encoding a Transfer of amount 100 (recipient 50) yields the buffer
\* [2,0,0,0,100,0,0,0,50,0,0,0], and decoding that buffer yields Transfer,
\* amount 100, recipient 50.
C7_TransferScenario ==
    /\ (request.kind = "transfer" /\ request.amount = 100) => data = transaction_data
    /\ (InstructionDone /\ data = transaction_data) =>
          result = Returned(<< TransferReport, FieldsReport(U32Of(100), U32Of(50)) >>)

\* whether the declared name runs past the end of the buffer
Overruns(d) ==
    \/ Len(d) < NAME_OFFSET
    \/ NAME_OFFSET + At(d, NAME_LENGTH_OFFSET) > Len(d)

\* C8: the account-record parse never panics, and returns no name when the
\* declared name would overrun the buffer.
C8_ParseNeverPanics ==
    AccountDone =>
        /\ ~parsed.panic
        /\ Overruns(account_data) => "name_slice" \notin DOMAIN parsed

\* C9: the 20-byte account buffer of slice_examples parses to type 1, name
\* length 5 and the name bytes [83,79,76,47,85].
C9_AccountScenario ==
    (AccountDone /\ account_data = sample_account_data) =>
        /\ ~parsed.panic
        /\ parsed.instruction_type = 1
        /\ parsed.name_length = 5
        /\ parsed.name_slice = <<83, 79, 76, 47, 85>>

\* C10: when the buffer holds the declared name (len >= 9 + N, N = byte 8),
\* the parse returns type tag = byte 0, name length = N and as name exactly
\* the N bytes 9 .. 9+N-1 in order.
C10_AccountWireFormat ==
    (AccountDone /\ ~Overruns(account_data)) =>
        LET N == At(account_data, NAME_LENGTH_OFFSET)
        IN  /\ ~parsed.panic
            /\ parsed.instruction_type = At(account_data, 0)
            /\ parsed.name_length = N
            /\ Len(parsed.name_slice) = N
            /\ \A k \in 0..(N - 1) :
                  At(parsed.name_slice, k) = At(account_data, NAME_OFFSET + k)

\* C10 witness: a record that declares 2 name bytes and holds 3 was parsed
\* to the first two.
C10_Witness ==
    /\ AccountDone
    /\ Len(account_data) = NAME_OFFSET + 3
    /\ At(account_data, NAME_LENGTH_OFFSET) = 2
    /\ SubSeq(account_data, 10, 12) = <<195, 169, 65>>
    /\ parsed.name_slice = <<195, 169>>

\* C11: when the name bytes selected by the length field are not valid
\* UTF-8, the parse fails (InvalidEncoding) and returns no name value.
C11_InvalidEncodingRejected ==
    (AccountDone /\ ~parsed.panic /\ ~IsUtf8(parsed.name_slice)) =>
        "name" \notin DOMAIN parsed

\* C20: a Transfer of 4 to 11 bytes is reported as a Transfer, with no
\* amount and no recipient, and with no error: no too-short report, no panic.
C20_ShortTransferDegrades ==
    (InstructionDone /\ Len(data) >= MIN_INSTRUCTION_LEN
                     /\ Len(data) < TRANSFER_PAYLOAD_LEN
                     /\ At(data, 0) = 2) =>
        result = Returned(<< TransferReport >>)

\* C20 witness: an 8-byte Transfer whose amount bytes are present and whose
\* recipient bytes are missing was reported as a bare Transfer.
C20_Witness ==
    /\ InstructionDone
    /\ Len(data) = 8
    /\ At(data, 0) = 2
    /\ At(data, 4) = 100
    /\ result = Returned(<< TransferReport >>)

TransactionsDone == pc = "transactions_done"

\* the positions of txs that have a validity report
Reported == DOMAIN txs \cap DOMAIN validation.reports

\* C12: for every TokenTransfer (it uses the default is_valid) the validity
\* reported is (sig starts with "0x") and (amount_lamports > 0); with
\* amount_lamports = 0 it is invalid whatever the signature.
C12_DefaultValidity ==
    TransactionsDone =>
        \A k \in Reported :
            txs[k].type = "TokenTransfer" =>
                /\ validation.reports[k].valid =
                     (starts_with(txs[k].sig, Str_0x) /\ txs[k].amount_lamports > 0)
                /\ txs[k].amount_lamports = 0 => ~validation.reports[k].valid

\* C12 witness: a TokenTransfer signed "0x123abc" with amount 0 was reported
\* invalid.
C12_Witness ==
    /\ TransactionsDone
    /\ \E k \in Reported :
          /\ txs[k] = TokenTransfer(Str_Alice, Str_Bob, 0, Str_0x123abc)
          /\ validation.reports[k].valid = FALSE

\* C13: for every NFTTransfer the validity reported is (sig non-empty and
\* signed_by = "authority") and token_id > 0 and collection non-empty; the
\* amount does not enter it.
C13_NFTValidity ==
    TransactionsDone =>
        \A k \in Reported :
            txs[k].type = "NFTTransfer" =>
                validation.reports[k].valid =
                    /\ Len(txs[k].sig) > 0
                    /\ txs[k].signed_by = Str_authority
                    /\ txs[k].token_id > 0
                    /\ Len(txs[k].collection) > 0

\* C13 witness: an NFTTransfer that verifies, of a named collection, with
\* token id 0 was reported invalid.
C13_Witness ==
    /\ TransactionsDone
    /\ \E k \in Reported :
          /\ txs[k] = NFTTransfer(Str_Solana_Monkeys, 0, Str_Charlie,
                                  Str_authority, Str_valid_sig)
          /\ validation.reports[k].valid = FALSE

\* C14: validate_transactions reports every element, in input order: n
\* reports for n transactions, the k-th with index k and the validity of
\* the k-th element, also after an invalid element.
C14_FullOrderedReport ==
    TransactionsDone =>
        /\ validation.count = Len(txs)
        /\ Len(validation.reports) = Len(txs)
        /\ \A k \in 1..Len(txs) :
              validation.reports[k] = ValidityReport(k, Transaction_is_valid(txs[k]))

\* C14 witness: an invalid transaction followed by a valid one; both were
\* reported, in that order.
C14_Witness ==
    /\ TransactionsDone
    /\ Len(txs) = 2
    /\ ~Transaction_is_valid(txs[1])
    /\ Transaction_is_valid(txs[2])
    /\ validation.reports = << ValidityReport(1, FALSE), ValidityReport(2, TRUE) >>

EntityChecked == pc = "entity_checked"

\* C15: for every UserAccount is_rent_exempt() is (lamports >= 890880):
\* false at 890879 and true at 890880.
C15_RentExemptBoundary ==
    (EntityChecked /\ account.type = "UserAccount") =>
        /\ rent_exempt = (account.lamports >= 890880)
        /\ account.lamports = 890879 => rent_exempt = FALSE
        /\ account.lamports = 890880 => rent_exempt = TRUE

\* C15 witness: a UserAccount holding exactly 890880 lamports was found
\* rent-exempt.
C15_Witness ==
    /\ EntityChecked
    /\ account = UserAccount(Str_Alice, 890880)
    /\ rent_exempt = TRUE

\* C16: lamports() of every ProgramAccount is 1000000, whatever its id and
\* is_executable, and so every ProgramAccount is rent-exempt.
C16_ProgramAccountLamports ==
    account.type = "ProgramAccount" =>
        /\ Account_lamports(account) = 1000000
        /\ EntityChecked => rent_exempt = TRUE

\* C16 witness: a ProgramAccount that is not executable was found
\* rent-exempt.
C16_Witness ==
    /\ EntityChecked
    /\ account = ProgramAccount(Str_TokenProg, FALSE)
    /\ rent_exempt = TRUE

\* C17: a call of display_info (a step that prints a line) leaves the
\* account's fields, its lamports() and its is_rent_exempt() as they were,
\* so the answer of is_rent_exempt() is the same after any number of calls.
C17_DisplayInfoFrame ==
    [][ display_out' # display_out =>
            /\ account' = account
            /\ Account_lamports(account') = Account_lamports(account)
            /\ Account_is_rent_exempt(account') = Account_is_rent_exempt(account)
            /\ rent_exempt' = rent_exempt ]_vars

\* C17 witness: is_rent_exempt() was answered for a UserAccount at the
\* boundary after two calls of display_info.
C17_Witness ==
    /\ EntityChecked
    /\ Len(display_out) = 2
    /\ account = UserAccount(Str_Alice, 890880)
    /\ rent_exempt = TRUE

\* C18: each TokenError kind converts to the Token variant wrapping that
\* same kind, never to Network or Serialization, and two different kinds
\* never convert to the same ComplexError.
C18_ConversionLossless ==
    /\ pc = "converted" =>
          /\ complex_error = [variant |-> "Token", inner |-> token_error]
          /\ complex_error.variant \notin {"Network", "Serialization"}
    /\ \A e1, e2 \in TokenError :
          ComplexError_from(e1) = ComplexError_from(e2) => e1 = e2

\* C18 witness: InvalidAmount was converted to Token(InvalidAmount).
C18_Witness ==
    /\ pc = "converted"
    /\ token_error = "InvalidAmount"
    /\ complex_error = [variant |-> "Token", inner |-> "InvalidAmount"]

Called(f) == outcome[f] # Pending

\* C19: when both accounts are found and transfer_tokens returns Err(e),
\* process_transaction_with_result and process_transaction_with_question_mark
\* return Err(e), the same kind: never Ok, never another kind.
C19_ErrorsPropagateUnchanged ==
    ( /\ call.from \in {Str_alice, Str_bob}
      /\ call.to \in {Str_alice, Str_bob}
      /\ Called("transfer_tokens")
      /\ ~outcome["transfer_tokens"].ok ) =>
        \A f \in {"process_transaction_with_result",
                  "process_transaction_with_question_mark"} :
            Called(f) =>
                /\ ~outcome[f].ok
                /\ outcome[f].err = outcome["transfer_tokens"].err

\* C19 witness: alice -> bob of 1001 failed with InsufficientBalance in
\* transfer_tokens and in both callers.
C19_Witness ==
    /\ call = [from |-> Str_alice, to |-> Str_bob, amount |-> 1001]
    /\ \A f \in TransferFunctions : outcome[f] = Err("InsufficientBalance")

\* C23: for every (from, to, amount), process_transaction_with_question_mark
\* and process_transaction_with_result return equal results: the same Ok
\* string or the same TokenError kind.
C23_QuestionMarkEquivalent ==
    ( /\ Called("process_transaction_with_result")
      /\ Called("process_transaction_with_question_mark") ) =>
        outcome["process_transaction_with_question_mark"]
            = outcome["process_transaction_with_result"]

\* C23 witness: bob -> alice of 50 gave the same Ok string in both, and the
\* string is the formatted one.
C23_Witness ==
    /\ call = [from |-> Str_bob, to |-> Str_alice, amount |-> 50]
    /\ outcome["process_transaction_with_result"]
         = Ok(<<"P", "r", "o", "c", "e", "s", "s", "e", "d", ":", " ", "B", "o", "b", "'", "s", " ", "A", "c", "c", "o", "u", "n", "t", " ", "-", ">", " ", "A", "l", "i", "c", "e", "'", "s", " ", "A", "c", "c", "o", "u", "n", "t", " ", "(", "5", "0", ")", ":", " ", "t", "x", "-", "b", "o", "b", "-", "a", "l", "i", "c", "e", "-", "5", "0">>)
    /\ outcome["process_transaction_with_question_mark"]
         = outcome["process_transaction_with_result"]

\* the reports of the arms of the match on the opcode
OpcodeReportKinds == {"Initialize", "CreateAccount", "Transfer", "Fields", "Unknown"}

\* C24: the length check precedes the opcode: every buffer shorter than 4
\* bytes, whatever its byte 0, ends without panic with the too-short line as
\* its only output, and none of the reports of the opcode arms.
C24_LengthCheckFirst ==
    (InstructionDone /\ Len(data) < 4) =>
        /\ ~result.panic
        /\ Len(result.out) = 1
        /\ result.out[1].kind = "TooShort"
        /\ \A k \in 1..Len(result.out) : result.out[k].kind \notin OpcodeReportKinds

\* C24 witness: a 1-byte buffer holding the unknown opcode 255, and a 3-byte
\* one holding the opcode 0, were both rejected as too short.
C24_Witness ==
    /\ InstructionDone
    /\ \/ data = <<255>>
       \/ (Len(data) = 3 /\ At(data, 0) = 0)
    /\ result.out = << TooShortReport >>

\* C25: transfer_tokens returns AccountNotFound when from is "missing",
\* whatever the amount; else InsufficientBalance when amount > 1000; else
\* InvalidAmount when amount is 0; else Ok("tx-<from>-<to>-<amount>"). It
\* never returns UnauthorizedSigner.
C25_TransferCheckOrder ==
    Called("transfer_tokens") =>
        LET r == outcome["transfer_tokens"]
        IN  /\ call.from = Str_missing => r = Err("AccountNotFound")
            /\ (call.from # Str_missing /\ call.amount > 1000)
                   => r = Err("InsufficientBalance")
            /\ (call.from # Str_missing /\ call.amount = 0)
                   => r = Err("InvalidAmount")
            /\ (call.from # Str_missing /\ call.amount \in 1..1000)
                   => r = Ok(<<"t", "x", "-">> \o call.from \o <<"-">> \o call.to \o <<"-">>
                             \o to_string(call.amount))
            /\ ~r.ok => r.err # "UnauthorizedSigner"

\* C25 witness: from "missing" with amount 0 gave AccountNotFound, or alice
\* -> bob of 100 gave Ok("tx-alice-bob-100").
C25_Witness ==
    /\ Called("transfer_tokens")
    /\ \/ /\ call = [from |-> Str_missing, to |-> Str_bob, amount |-> 0]
          /\ outcome["transfer_tokens"] = Err("AccountNotFound")
       \/ /\ call = [from |-> Str_alice, to |-> Str_bob, amount |-> 100]
          /\ outcome["transfer_tokens"] = Ok(<<"t", "x", "-", "a", "l", "i", "c", "e", "-", "b", "o", "b", "-", "1", "0", "0">>)

\* C26: process_transaction_with_result returns AccountNotFound whenever
\* from or to is neither "alice" nor "bob", whatever the amount, and Ok only
\* when both are found and 1 <= amount <= 1000.
C26_LookupBeforeTransfer ==
    Called("process_transaction_with_result") =>
        LET r == outcome["process_transaction_with_result"]
            found == /\ call.from \in {Str_alice, Str_bob}
                     /\ call.to \in {Str_alice, Str_bob}
        IN  /\ ~found => r = Err("AccountNotFound")
            /\ r.ok => (found /\ call.amount >= 1 /\ call.amount <= 1000)

\* C26 witness: alice -> carol of 0 and carol -> bob of 1001 gave
\* AccountNotFound.
C26_Witness ==
    /\ \/ call = [from |-> Str_alice, to |-> Str_carol, amount |-> 0]
       \/ call = [from |-> Str_carol, to |-> Str_bob, amount |-> 1001]
    /\ outcome["process_transaction_with_result"] = Err("AccountNotFound")

ComplexDone == pc = "complex_done"

\* C27: run_complex_operation never returns Ok: it returns
\* Err(Network("Timeout")), never a Token or Serialization error.
C27_AlwaysNetworkTimeout ==
    ComplexDone =>
        /\ ~complex_result.ok
        /\ complex_result.err = [variant |-> "Network", message |-> <<"T", "i", "m", "e", "o", "u", "t">>]

\* C27 witness: run_complex_operation returned an Err of kind Network, and
\* the transfer it made had succeeded with an id holding "100".
C27_Witness ==
    /\ ComplexDone
    /\ ~complex_result.ok
    /\ complex_result.err.variant = "Network"
    /\ transfer_tokens(Str_alice, Str_bob, 100) = Ok(<<"t", "x", "-", "a", "l", "i", "c", "e", "-", "b", "o", "b", "-", "1", "0", "0">>)

\* C28: the override of NFTTransfer is never more permissive than the
\* default: every NFTTransfer reported valid verifies and has amount() > 0;
\* amount() is always 1, and the override is the default with the token_id
\* > 0 and non-empty-collection conditions added.
C28_OverrideNotMorePermissive ==
    TransactionsDone =>
        \A k \in Reported :
            txs[k].type = "NFTTransfer" =>
                /\ Transaction_amount(txs[k]) = 1
                /\ validation.reports[k].valid =>
                       /\ Len(txs[k].sig) > 0
                       /\ txs[k].signed_by = Str_authority
                       /\ Transaction_amount(txs[k]) > 0
                /\ validation.reports[k].valid =
                       /\ Transaction_is_valid_default(txs[k])
                       /\ txs[k].token_id > 0
                       /\ Len(txs[k].collection) > 0

\* C28 witness: an NFTTransfer of a named collection with token id 42 but
\* not signed by the authority (the default rejects it) was reported invalid.
C28_Witness ==
    /\ TransactionsDone
    /\ \E k \in Reported :
          /\ txs[k].type = "NFTTransfer"
          /\ txs[k].token_id = 42
          /\ txs[k].collection = Str_Solana_Monkeys
          /\ txs[k].sig = Str_valid_sig
          /\ txs[k].signed_by # Str_authority
          /\ ~Transaction_is_valid_default(txs[k])
          /\ validation.reports[k].valid = FALSE

SolanaDone == pc = "solana_done"

\* C29: the Solana-style process_instruction returns Err(InvalidInstruction)
\* exactly when instruction is not 0, 1 or 2, or accounts is empty, and
\* Ok(()) otherwise, whatever the data bytes; the opcode is checked first
\* (the instruction line is printed iff the opcode is known); no other
\* ProgramError is returned.
C29_SolanaInvalidInstruction ==
    SolanaDone =>
        LET invalid == \/ sol_call.instruction \notin {0, 1, 2}
                       \/ Len(sol_call.accounts) = 0
        IN  /\ sol_result.result =
                  (IF invalid THEN Err("InvalidInstruction") ELSE Ok(<< >>))
            /\ ~sol_result.result.ok =>
                  sol_result.result.err \notin
                      {"NotRentExempt", "InsufficientFunds", "AlreadyInitialized"}
            /\ (Len(sol_result.out) = 0) = (sol_call.instruction \notin {0, 1, 2})

\* C29 witness: Mint with no accounts and 4 data bytes was rejected with
\* InvalidInstruction after its instruction line was printed.
C29_Witness ==
    /\ SolanaDone
    /\ sol_call = [instruction |-> 2, accounts |-> << >>, data |-> <<0, 0, 0, 5>>]
    /\ sol_result = [result |-> Err("InvalidInstruction"),
                     out |-> << ProcessingReport("Mint") >>]

HostRunning == pc = "host"

\* whether the call of thread t has ended: returned, or panicked
Ended(t) == cpc[t] \in {"done", "panicked"}

\* the lines thread t printed, in the order it printed them
OutputOf(t) ==
    LET own == SelectSeq(stdout, LAMBDA e : e.thread = t)
    IN  [k \in 1..Len(own) |-> own[k].line]

\* what the call of thread t did: whether it panicked, and its lines
ResultOf(t) == [panic |-> cpc[t] = "panicked", out |-> OutputOf(t)]

\* C21: for any two calls (process_instruction, validate_transactions or
\* the account-record parse) on caller-owned inputs, in every interleaving
\* of their statements each call that has ended did what it does when it
\* runs alone, and no statement changes the input of any call.
C21_Reentrant ==
    /\ [](HostRunning =>
            \A t \in Threads : Ended(t) => ResultOf(t) = AloneResult(calls[t]))
    /\ [][HostRunning => calls' = calls]_vars

\* C21 witness: two Transfer calls, one on the 12-byte buffer of
\* slice_examples and one on a 4-byte buffer, ended with their lines
\* interleaved: thread 2 printed between the two lines of thread 1.
C21_Witness ==
    /\ HostRunning
    /\ \A t \in Threads : Ended(t)
    /\ calls[1] = [op |-> "process_instruction", arg |-> transaction_data]
    /\ calls[2] = [op |-> "process_instruction", arg |-> <<2, 0, 0, 0>>]
    /\ Len(stdout) = 3
    /\ stdout[1].thread = 1 /\ stdout[2].thread = 2 /\ stdout[3].thread = 1
    /\ ResultOf(1) = process_instruction(transaction_data)

\* one statement of the call of some thread
CallStep(t) ==
    \/ CheckLength(t)
    \/ ReadInstructionType(t)
    \/ MatchInstructionType(t)
    \/ ReadTransferFields(t)
    \/ PrintCount(t)
    \/ LoopIteration(t)
    \/ ReadTypeTag(t)
    \/ ReadNameLength(t)
    \/ SliceName(t)

\* no statement of a call waits: a call that has not ended can take a step
\* whatever the other thread is doing
NoWaiting == \A t \in Threads : (HostRunning /\ ~Ended(t)) => ENABLED CallStep(t)

\* C22: every call of process_instruction, validate_transactions and the
\* account-record parse ends (process_instruction and validate_transactions
\* by returning), no statement waits on anything, and validate_transactions
\* ends after exactly len(txs) turns of its loop.
C22_RunsToCompletion ==
    /\ HostRunning ~> (\A t \in Threads : Ended(t))
    /\ []NoWaiting
    /\ [](\A t \in Threads :
             (HostRunning /\ Ended(t)) =>
                 /\ calls[t].op = "validate_transactions" =>
                        /\ iterations[t] = Len(calls[t].arg)
                        /\ cpc[t] = "done"
                 /\ calls[t].op = "process_instruction" => cpc[t] = "done")

\* C22 witness: a validate_transactions call on two transactions returned
\* after two turns of the loop, beside a process_instruction call that
\* returned.
C22_Witness ==
    /\ HostRunning
    /\ \A t \in Threads : Ended(t)
    /\ calls[1].op = "validate_transactions"
    /\ Len(calls[1].arg) = 2
    /\ iterations[1] = 2
    /\ calls[2] = [op |-> "process_instruction", arg |-> transaction_data]
    /\ cpc[2] = "done"

MainDone == pc = "main" /\ main_state = "done"

\* C30: main never panics: every unwrap, expect, index, slice and assert of
\* its sections succeeds; it calls the sections in order, each one started
\* is followed by the next, and it is at its final line only after all 21.
C30_MainNeverPanics ==
    /\ main_state # "panicked"
    /\ (pc = "main" /\ main_state = "running") =>
          (ENABLED RunSection \/ ENABLED PrintCongratulations)
    /\ MainDone => main_at = Len(MainSections)
    /\ \A k \in 1..main_at : ~RunSectionNamed(MainSections[k]).panic

\* C30 witness: main is at its final line, after hashmap_examples read
\* token_balances["Dave"] and macro_examples passed its asserts.
C30_Witness ==
    /\ MainDone
    /\ main_at = 21
    /\ MainSections[main_at] = "macro_examples"
    /\ ~hashmap_examples.panic
    /\ ~error_handling_basics.panic
    /\ parse_u64(<<"5", "0">>) = Ok([hi |-> U32(0, 0), lo |-> U32(0, 50)])

====
